---- MODULE Spec2Model ----
(***************************************************************************)
(* The PSO engine of pypso/Pso.py (branch 0.22): the PSO handle class, its *)
(* process-wide Singleton, the configuration setters, the bound lists,     *)
(* the inertia schedule and the execute() loop.                            *)
(*                                                                         *)
(* The program is Python 2.  Numbers carry their Python type: "int"        *)
(* values are integers and int / int is floor division; "float" values     *)
(* are held in units of 1/Scale, so that the divisions the program makes   *)
(* are exact (floating-point rounding is not modelled).  None is a value   *)
(* of its own kind.                                                        *)
(*                                                                         *)
(* Every public call made while the engine is idle is one action that      *)
(* runs the whole method and leaves its outcome in ret (pc = "ret"); the   *)
(* action return hands control back to the caller.  execute() is split at  *)
(* the statements between which a KeyboardInterrupt can arrive.            *)
(***************************************************************************)
EXTENDS Integers, Sequences, FiniteSets, TLC

\* ------------------------------------------------------------- bounds
\* Largest step budget a caller passes to setTimeSteps.
MaxTimeSteps == 2
\* Steps after which a loop that no longer terminates is cut off.
MaxExtraSteps == 1
\* Longest bound list (initializeBounds appends, so it may be called twice).
MaxLen == 2

MaxStep == MaxTimeSteps + MaxExtraSteps

RECURSIVE Fact(_)
Fact(n) == IF n <= 1 THEN 1 ELSE n * Fact(n - 1)

\* Floats are held in units of 1/Scale: every division by a step budget
\* in 1..MaxTimeSteps of a whole number is exact.
Scale == Fact(MaxTimeSteps)

\* ------------------------------------------------------------- values
PsoTypes == {"BASIC", "CONSTRICTED", "INERTIA"}
PsoTypeInputs == PsoTypes \cup {"UNKNOWN"}
TopologyInputs == {"GlobalTopology", "LocalTopology"}
\* statsGenFreq of the report adapters a caller may install.
StatsGenFreqs == {1, 2}
\* freq_stats arguments of execute().
FreqStatsInputs == {0, 2}
TimeStepsInputs == 0 .. MaxTimeSteps
DimensionsInputs == 0 .. MaxLen

NoneNum == [kind |-> "None", v |-> 0]
PyFloat(n) == [kind |-> "float", v |-> n * Scale]
PyInt(n) == [kind |-> "int", v |-> n]

\* (inertiaFactorStart, inertiaFactorEnd) arguments of setInitialInertiaFactor.
InertiaInputs ==
  { <<PyFloat(2), PyFloat(1)>>, <<PyFloat(1), PyFloat(2)>>,
    <<PyFloat(1), PyFloat(1)>>, <<PyFloat(0), PyFloat(1)>>,
    <<PyInt(2), PyInt(1)>> }

\* Python truth value of a number or None: `not x`.
PyNot(x) == x.kind = "None" \/ x.v = 0

\* a - b for two numbers of the same type.
PySub(a, b) == [kind |-> a.kind, v |-> a.v - b.v]

PyAbs(a) == [kind |-> a.kind, v |-> IF a.v < 0 THEN -a.v ELSE a.v]

\* a / n, n a positive int: floor division of ints, true division of floats.
PyDiv(a, n) == [kind |-> a.kind, v |-> a.v \div n]

\* A bound value: a tuple of numbers, or a bare float.
Tuple(s) == [kind |-> "tuple", items |-> s]
Scalar(x) == [kind |-> "float", items |-> <<x>>]
DefaultPositionBound == Tuple(<<0, 0>>)
DefaultVelocityBound == Scalar(0)
\* minMaxValue arguments: a pair, a pair with min > max, a 3-tuple, no tuple.
PositionBoundInputs ==
  { Tuple(<<-1, 1>>), Tuple(<<1, -1>>), Tuple(<<0, 1, 2>>), Scalar(1) }
VelocityBoundInputs == { Scalar(1) }
\* firstDimension / lastDimension arguments.
RangeInputs == -1 .. (MaxLen + 1)

NoAdapter == [present |-> FALSE, statsGenFreq |-> 0]
Adapter(n) == [present |-> TRUE, statsGenFreq |-> n]

\* What a finished call hands back: the method, the exception it raised
\* ("none" if it returned), its arguments where a setter took any, and for
\* PSO() whether it created the Singleton.
NoRet == [op |-> "", exc |-> "none", created |-> FALSE, args |-> <<>>]
Returned(op, exc) == [op |-> op, exc |-> exc, created |-> FALSE, args |-> <<>>]

VARIABLES
  iInstance,              \* PSO._iInstance is not None
  psoType, topology, function, timeSteps, currentStep,
  inertiaFactorMinus, inertiaFactor,
  inertiaFactorStart,     \* arguments of the last setInitialInertiaFactor
  inertiaFactorEnd,       \*   that set the schedule
  positionBounds, initialPositionBounds, velocityBounds,
  reportAdapter,
  pc,                     \* "idle", "ret", or the statement execute() is at
  freq_stats,             \* argument of the execute() in progress
  log,                    \* calls made by the execute() in progress, in order
  ret                     \* outcome of the call that has just finished

engine == <<psoType, topology, function, timeSteps, currentStep,
            inertiaFactorMinus, inertiaFactor, inertiaFactorStart, inertiaFactorEnd,
            positionBounds, initialPositionBounds, velocityBounds,
            reportAdapter>>
bounds == <<positionBounds, initialPositionBounds, velocityBounds>>
vars == <<iInstance, engine, pc, freq_stats, log, ret>>

\* ------------------------------------------------------------- construction
\* Singleton.__init__: the defaults Consts.CDefPsoType and Consts.CDefSteps
\* are set outside this file; any variant and any budget >= 1 may be the default.
Singleton__init__ ==
  /\ psoType' \in PsoTypes
  /\ topology' = "None"
  /\ timeSteps' \in 1 .. MaxTimeSteps
  /\ currentStep' = 0
  /\ function' = "None"
  /\ inertiaFactorMinus' = NoneNum
  /\ inertiaFactor' = NoneNum
  /\ inertiaFactorStart' = NoneNum
  /\ inertiaFactorEnd' = NoneNum
  /\ positionBounds' = <<>>
  /\ initialPositionBounds' = <<>>
  /\ velocityBounds' = <<>>
  /\ reportAdapter' = NoAdapter

\* No PSO() has run yet: there is no Singleton, its fields hold nothing.
Init ==
  /\ iInstance = FALSE
  /\ psoType = "BASIC"
  /\ topology = "None"
  /\ timeSteps = 1
  /\ currentStep = 0
  /\ function = "None"
  /\ inertiaFactorMinus = NoneNum
  /\ inertiaFactor = NoneNum
  /\ inertiaFactorStart = NoneNum
  /\ inertiaFactorEnd = NoneNum
  /\ positionBounds = <<>>
  /\ initialPositionBounds = <<>>
  /\ velocityBounds = <<>>
  /\ reportAdapter = NoAdapter
  /\ pc = "idle"
  /\ freq_stats = 0
  /\ log = <<>>
  /\ ret = NoRet

\* PSO() without the test `PSO._iInstance is None`: every construction creates
\* a Singleton of its own.
PSO__init__alwaysNew ==
  /\ pc = "idle"
  /\ Singleton__init__
  /\ iInstance' = TRUE
  /\ pc' = "ret"
  /\ ret' = [op |-> "PSO", exc |-> "none", created |-> ~iInstance, args |-> <<>>]
  /\ UNCHANGED <<freq_stats, log>>

\* PSO(): the first construction creates the Singleton, every later one
\* returns a handle on the same Singleton.
PSO__init__ ==
  /\ pc = "idle"
  /\ IF iInstance
       THEN UNCHANGED engine
       ELSE Singleton__init__
  /\ iInstance' = TRUE
  /\ pc' = "ret"
  /\ ret' = [op |-> "PSO", exc |-> "none", created |-> ~iInstance, args |-> <<>>]
  /\ UNCHANGED <<freq_stats, log>>

\* A call through a handle: PSO.__getattr__ delegates to PSO._iInstance.
Callable == pc = "idle" /\ iInstance

Return(op, exc) ==
  /\ pc' = "ret"
  /\ ret' = Returned(op, exc)
  /\ UNCHANGED <<iInstance, freq_stats, log>>

ReturnOf(op, exc, args) ==
  /\ pc' = "ret"
  /\ ret' = [op |-> op, exc |-> exc, created |-> FALSE, args |-> args]
  /\ UNCHANGED <<iInstance, freq_stats, log>>

\* The inertia schedule and the arguments that set it.
inertia == <<inertiaFactorMinus, inertiaFactor, inertiaFactorStart, inertiaFactorEnd>>

\* ------------------------------------------------------------- setters
setFunction ==
  /\ Callable
  /\ function' = "f"
  /\ Return("setFunction", "none")
  /\ UNCHANGED <<psoType, topology, timeSteps, currentStep, inertia, bounds,
                 reportAdapter>>

setPsoType ==
  /\ Callable
  /\ \E t \in PsoTypeInputs :
       IF t \notin PsoTypes
         THEN /\ Return("setPsoType", "TypeError")
              /\ UNCHANGED psoType
         ELSE /\ psoType' = t
              /\ Return("setPsoType", "none")
  /\ UNCHANGED <<topology, function, timeSteps, currentStep, inertia, bounds,
                 reportAdapter>>

setTopology ==
  /\ Callable
  /\ \E t \in TopologyInputs : topology' = t
  /\ Return("setTopology", "none")
  /\ UNCHANGED <<psoType, function, timeSteps, currentStep, inertia, bounds,
                 reportAdapter>>

setTimeSteps ==
  /\ Callable
  /\ \E num_steps \in TimeStepsInputs :
       IF num_steps < 1
         THEN /\ Return("setTimeSteps", "ValueError")
              /\ UNCHANGED timeSteps
         ELSE /\ timeSteps' = num_steps
              /\ Return("setTimeSteps", "none")
  /\ UNCHANGED <<psoType, topology, function, currentStep, inertia, bounds,
                 reportAdapter>>

setReportAdapter ==
  /\ Callable
  /\ \E n \in StatsGenFreqs : reportAdapter' = Adapter(n)
  /\ Return("setReportAdapter", "none")
  /\ UNCHANGED <<psoType, topology, function, timeSteps, currentStep,
                 inertia, bounds>>

\* ------------------------------------------------------------- inertia schedule
\* setInitialInertiaFactor without the test of the variant.
setInitialInertiaFactor_anyVariant ==
  /\ Callable
  /\ \E p \in InertiaInputs :
       /\ inertiaFactorMinus' = PyDiv(PyAbs(PySub(p[1], p[2])), timeSteps)
       /\ inertiaFactor' = p[1]
       /\ inertiaFactorStart' = p[1]
       /\ inertiaFactorEnd' = p[2]
  /\ Return("setInitialInertiaFactor", "none")
  /\ UNCHANGED <<psoType, topology, function, timeSteps, currentStep, bounds,
                 reportAdapter>>

setInitialInertiaFactor ==
  /\ Callable
  /\ \E p \in InertiaInputs :
       IF psoType = "INERTIA"
         THEN /\ inertiaFactorMinus' = PyDiv(PyAbs(PySub(p[1], p[2])), timeSteps)
              /\ inertiaFactor' = p[1]
              /\ inertiaFactorStart' = p[1]
              /\ inertiaFactorEnd' = p[2]
         ELSE UNCHANGED inertia
  /\ Return("setInitialInertiaFactor", "none")
  /\ UNCHANGED <<psoType, topology, function, timeSteps, currentStep, bounds,
                 reportAdapter>>

\* self.inertiaFactor - self.inertiaFactorMinus: None - None is a TypeError.
InertiaUpdatable == inertiaFactor.kind # "None" /\ inertiaFactorMinus.kind # "None"

\* A caller's own call of updateInertiaFactor.
updateInertiaFactor ==
  /\ Callable
  /\ IF InertiaUpdatable
       THEN /\ inertiaFactor.v >= 0
            /\ inertiaFactor' = PySub(inertiaFactor, inertiaFactorMinus)
            /\ Return("updateInertiaFactor", "none")
       ELSE /\ UNCHANGED inertiaFactor
            /\ Return("updateInertiaFactor", "TypeError")
  /\ UNCHANGED <<psoType, topology, function, timeSteps, currentStep,
                 inertiaFactorMinus, inertiaFactorStart, inertiaFactorEnd, bounds,
                 reportAdapter>>

\* ------------------------------------------------------------- bound lists
RECURSIVE Repeat(_, _)
Repeat(x, n) == IF n <= 0 THEN <<>> ELSE <<x>> \o Repeat(x, n - 1)

initializeBounds ==
  /\ Callable
  /\ \E dimensions \in DimensionsInputs :
       /\ Len(positionBounds) + dimensions <= MaxLen
       /\ initialPositionBounds' =
            initialPositionBounds \o Repeat(DefaultPositionBound, dimensions)
       /\ positionBounds' = positionBounds \o Repeat(DefaultPositionBound, dimensions)
       /\ velocityBounds' = velocityBounds \o Repeat(DefaultVelocityBound, dimensions)
       /\ ReturnOf("initializeBounds", "none", <<dimensions>>)
  /\ UNCHANGED <<psoType, topology, function, timeSteps, currentStep,
                 inertia, reportAdapter>>

\* for i in range(first, last): lst[i] = value.  Python indexes from 0, accepts
\* -len .. -1 as indices from the end and raises IndexError on any other index
\* outside 0 .. len-1; the entries written before the error stay written.
RECURSIVE AssignRange(_, _, _, _)
AssignRange(lst, i, last, value) ==
  IF i >= last
    THEN [lst |-> lst, exc |-> "none"]
    ELSE IF i >= Len(lst) \/ i < -Len(lst)
      THEN [lst |-> lst, exc |-> "IndexError"]
      ELSE AssignRange([lst EXCEPT ![(IF i < 0 THEN Len(lst) + i ELSE i) + 1] = value],
                       i + 1, last, value)

\* The two position setters: a value that is no tuple is refused, every tuple
\* is written.
DefineTupleBounds(lst, firstDimension, lastDimension, minMaxValue) ==
  IF minMaxValue.kind # "tuple"
    THEN [lst |-> lst, exc |-> "TypeError"]
    ELSE AssignRange(lst, firstDimension, lastDimension, minMaxValue)

definePositionBounds ==
  /\ Callable
  /\ \E firstDimension \in RangeInputs, lastDimension \in RangeInputs,
        minMaxValue \in PositionBoundInputs :
       LET r == DefineTupleBounds(positionBounds, firstDimension, lastDimension,
                                  minMaxValue)
       IN /\ positionBounds' = r.lst
          /\ ReturnOf("definePositionBounds", r.exc,
                      <<firstDimension, lastDimension, minMaxValue>>)
  /\ UNCHANGED <<psoType, topology, function, timeSteps, currentStep,
                 inertia, initialPositionBounds, velocityBounds, reportAdapter>>

defineInitialPositionBounds ==
  /\ Callable
  /\ \E firstDimension \in RangeInputs, lastDimension \in RangeInputs,
        minMaxValue \in PositionBoundInputs :
       LET r == DefineTupleBounds(initialPositionBounds, firstDimension,
                                  lastDimension, minMaxValue)
       IN /\ initialPositionBounds' = r.lst
          /\ ReturnOf("defineInitialPositionBounds", r.exc,
                      <<firstDimension, lastDimension, minMaxValue>>)
  /\ UNCHANGED <<psoType, topology, function, timeSteps, currentStep,
                 inertia, positionBounds, velocityBounds, reportAdapter>>

defineVelocityBounds ==
  /\ Callable
  /\ \E firstDimensiom \in RangeInputs, lastDimensiom \in RangeInputs,
        value \in VelocityBoundInputs :
       LET r == AssignRange(velocityBounds, firstDimensiom, lastDimensiom, value)
       IN /\ velocityBounds' = r.lst
          /\ ReturnOf("defineVelocityBounds", r.exc,
                      <<firstDimensiom, lastDimensiom, value>>)
  /\ UNCHANGED <<psoType, topology, function, timeSteps, currentStep,
                 inertia, positionBounds, initialPositionBounds, reportAdapter>>

\* ------------------------------------------------------------- checkParametersSet
\* checkParametersSet with `and` for `or` in its test of the bound lists.
checkParametersSet_allBoundsEmpty ==
  IF topology = "None" \/ function = "None"
    THEN "TypeError"
    ELSE IF psoType = "INERTIA" /\ (PyNot(inertiaFactorMinus) \/ PyNot(inertiaFactor))
      THEN "TypeError"
      ELSE IF /\ initialPositionBounds = <<>>
              /\ velocityBounds = <<>>
              /\ positionBounds = <<>>
        THEN "TypeError"
        ELSE "none"

\* The exception checkParametersSet raises in the current state, "none" if it
\* returns.  `not x` is true of None, of 0 and 0.0 and of an empty list.
checkParametersSet ==
  IF topology = "None" \/ function = "None"
    THEN "TypeError"
    ELSE IF psoType = "INERTIA" /\ (PyNot(inertiaFactorMinus) \/ PyNot(inertiaFactor))
      THEN "TypeError"
      ELSE IF \/ initialPositionBounds = <<>>
              \/ velocityBounds = <<>>
              \/ positionBounds = <<>>
        THEN "TypeError"
        ELSE "none"

\* A caller's own call of checkParametersSet.
checkParametersSetCall ==
  /\ Callable
  /\ Return("checkParametersSet", checkParametersSet)
  /\ UNCHANGED engine

\* ------------------------------------------------------------- execute
\* One entry of log: a call execute() made, with currentStep at that moment.
Ev(name) == [ev |-> name, step |-> currentStep]

\* printStats: topology.statistics() then topology.printStats().
PrintStatsEvents == <<Ev("statistics"), Ev("printStats")>>
\* dumpStatsReport: topology.statistics() then reportAdapter.insert(.., currentStep).
DumpStatsReportEvents == <<Ev("statistics"), Ev("insert")>>

\* The statements inside the try block of execute().
TryPcs == {"updateParticlesPosition", "updateParticlesInformation",
           "storeBestParticle", "updateInertia", "increment",
           "loopPrintStats", "loopDumpStats"}
RunPcs == TryPcs \cup {"open", "initialize", "finalPrintStats", "finalDumpStats",
                       "saveAndClose"}

\* execute(freq_stats) without the call of checkParametersSet.
execute_unchecked ==
  /\ Callable
  /\ \E f \in FreqStatsInputs :
       /\ pc' = "open"
       /\ freq_stats' = f
       /\ log' = <<>>
       /\ UNCHANGED <<iInstance, ret>>
  /\ UNCHANGED engine

\* execute(freq_stats), up to the first statement after checkParametersSet.
execute ==
  /\ Callable
  /\ \E f \in FreqStatsInputs :
       IF checkParametersSet # "none"
         THEN /\ Return("execute", checkParametersSet)
         ELSE /\ pc' = "open"
              /\ freq_stats' = f
              /\ log' = <<>>
              /\ UNCHANGED <<iInstance, ret>>
  /\ UNCHANGED engine

\* self.reportAdapter.open() without the test of self.reportAdapter.
openReport_unconditional ==
  /\ pc = "open"
  /\ log' = Append(log, Ev("open"))
  /\ pc' = "initialize"
  /\ UNCHANGED <<iInstance, engine, freq_stats, ret>>

\* if self.reportAdapter: self.reportAdapter.open()
openReport ==
  /\ pc = "open"
  /\ log' = IF reportAdapter.present THEN Append(log, Ev("open")) ELSE log
  /\ pc' = "initialize"
  /\ UNCHANGED <<iInstance, engine, freq_stats, ret>>

\* self.initialize(): self.topology.initialize()
initialize ==
  /\ pc = "initialize"
  /\ log' = Append(log, Ev("initialize"))
  /\ pc' = "updateParticlesPosition"
  /\ UNCHANGED <<iInstance, engine, freq_stats, ret>>

\* constructSolution is entered: self.topology.updateParticlesPosition().
\* A loop is followed no further once it has run past MaxStep or has taken the
\* inertia factor below zero.
updateParticlesPosition ==
  /\ pc = "updateParticlesPosition"
  /\ currentStep < MaxStep
  /\ psoType = "INERTIA" => inertiaFactor.v >= 0
  /\ log' = log \o <<Ev("constructSolution"), Ev("updateParticlesPosition")>>
  /\ pc' = "updateParticlesInformation"
  /\ UNCHANGED <<iInstance, engine, freq_stats, ret>>

\* constructSolution without the call of topology.updateParticlesInformation().
updateParticlesInformation_skipped ==
  /\ pc = "updateParticlesInformation"
  /\ pc' = "storeBestParticle"
  /\ UNCHANGED <<iInstance, engine, freq_stats, log, ret>>

updateParticlesInformation ==
  /\ pc = "updateParticlesInformation"
  /\ log' = Append(log, Ev("updateParticlesInformation"))
  /\ pc' = "storeBestParticle"
  /\ UNCHANGED <<iInstance, engine, freq_stats, ret>>

\* storeBestParticle() called whatever the type of the topology.
storeBestParticle_anyTopology ==
  /\ pc = "storeBestParticle"
  /\ log' = Append(log, Ev("storeBestParticle"))
  /\ pc' = "updateInertia"
  /\ UNCHANGED <<iInstance, engine, freq_stats, ret>>

\* if type(self.topology) is LocalTopology: self.topology.storeBestParticle()
storeBestParticle ==
  /\ pc = "storeBestParticle"
  /\ log' = IF topology = "LocalTopology"
              THEN Append(log, Ev("storeBestParticle"))
              ELSE log
  /\ pc' = "updateInertia"
  /\ UNCHANGED <<iInstance, engine, freq_stats, ret>>

\* if self.psoType == INERTIA: self.updateInertiaFactor()
updateInertia ==
  /\ pc = "updateInertia"
  /\ IF psoType # "INERTIA"
       THEN /\ pc' = "increment"
            /\ UNCHANGED <<inertiaFactor, log, ret>>
       ELSE IF InertiaUpdatable
         THEN /\ inertiaFactor' = PySub(inertiaFactor, inertiaFactorMinus)
              /\ log' = Append(log, Ev("updateInertiaFactor"))
              /\ pc' = "increment"
              /\ UNCHANGED ret
         ELSE /\ pc' = "ret"
              /\ ret' = Returned("execute", "TypeError")
              /\ UNCHANGED <<inertiaFactor, log>>
  /\ UNCHANGED <<iInstance, psoType, topology, function, timeSteps, currentStep,
                 inertiaFactorMinus, inertiaFactorStart, inertiaFactorEnd, bounds,
                 reportAdapter, freq_stats>>

\* self.currentStep += 1; return (self.currentStep == self.timeSteps)
increment ==
  /\ pc = "increment"
  /\ currentStep' = currentStep + 1
  /\ log' = Append(log, [ev |-> "increment", step |-> currentStep + 1])
  /\ pc' = IF currentStep + 1 = timeSteps THEN "finalPrintStats" ELSE "loopPrintStats"
  /\ UNCHANGED <<iInstance, psoType, topology, function, timeSteps,
                 inertia, bounds, reportAdapter, freq_stats, ret>>

\* The loop body, first statement.
loopPrintStats ==
  /\ pc = "loopPrintStats"
  /\ log' = IF freq_stats # 0 /\ (currentStep % freq_stats = 0 \/ currentStep = 1)
              THEN log \o PrintStatsEvents
              ELSE log
  /\ pc' = "loopDumpStats"
  /\ UNCHANGED <<iInstance, engine, freq_stats, ret>>

\* The loop body, second statement (nested in `if freq_stats != 0`).  The
\* keyboard poll that follows it changes nothing of the engine.
loopDumpStats ==
  /\ pc = "loopDumpStats"
  /\ log' = IF /\ freq_stats # 0
               /\ reportAdapter.present
               /\ currentStep % reportAdapter.statsGenFreq = 0
              THEN log \o DumpStatsReportEvents
              ELSE log
  /\ pc' = "updateParticlesPosition"
  /\ UNCHANGED <<iInstance, engine, freq_stats, ret>>

\* After the try block: if freq_stats != 0: printStats(); printTimeElapsed()
finalPrintStats ==
  /\ pc = "finalPrintStats"
  /\ log' = IF freq_stats # 0 THEN log \o PrintStatsEvents ELSE log
  /\ pc' = "finalDumpStats"
  /\ UNCHANGED <<iInstance, engine, freq_stats, ret>>

\* if self.reportAdapter: if currentStep % statsGenFreq == 0: dumpStatsReport() ...
finalDumpStats ==
  /\ pc = "finalDumpStats"
  /\ IF reportAdapter.present /\ currentStep % reportAdapter.statsGenFreq = 0
       THEN /\ log' = log \o DumpStatsReportEvents
            /\ pc' = "saveAndClose"
            /\ UNCHANGED ret
       ELSE /\ pc' = "ret"
            /\ ret' = Returned("execute", "none")
            /\ UNCHANGED log
  /\ UNCHANGED <<iInstance, engine, freq_stats>>

\* ... self.reportAdapter.saveAndClose(), under the same condition.
saveAndClose ==
  /\ pc = "saveAndClose"
  /\ log' = Append(log, Ev("saveAndClose"))
  /\ pc' = "ret"
  /\ ret' = Returned("execute", "none")
  /\ UNCHANGED <<iInstance, engine, freq_stats>>

\* A KeyboardInterrupt arrives before the statement at pc: inside the try block
\* it is caught and execute() goes on after the block, elsewhere it leaves
\* execute().
KeyboardInterrupt ==
  /\ pc \in RunPcs
  /\ IF pc \in TryPcs
       THEN /\ log' = Append(log, Ev("KeyboardInterrupt"))
            /\ pc' = "finalPrintStats"
            /\ UNCHANGED ret
       ELSE /\ pc' = "ret"
            /\ ret' = Returned("execute", "KeyboardInterrupt")
            /\ UNCHANGED log
  /\ UNCHANGED <<iInstance, engine, freq_stats>>

\* The call that has finished returns to its caller.
returnToCaller ==
  /\ pc = "ret"
  /\ pc' = "idle"
  /\ ret' = NoRet
  /\ log' = <<>>
  /\ freq_stats' = 0
  /\ UNCHANGED <<iInstance, engine>>

\* ------------------------------------------------------------- specifications
\* The engine: construction, configuration and runs.  The three define*Bounds
\* setters write entries of the bound lists only, which nothing else of the
\* engine reads (checkParametersSet looks at emptiness alone); they are
\* exercised by SpecBounds.
Next ==
  \/ PSO__init__ \/ setFunction \/ setPsoType \/ setTopology \/ setTimeSteps
  \/ setReportAdapter \/ setInitialInertiaFactor \/ updateInertiaFactor
  \/ initializeBounds \/ checkParametersSetCall
  \/ execute \/ openReport \/ initialize
  \/ updateParticlesPosition \/ updateParticlesInformation \/ storeBestParticle
  \/ updateInertia \/ increment \/ loopPrintStats \/ loopDumpStats
  \/ finalPrintStats \/ finalDumpStats \/ saveAndClose
  \/ KeyboardInterrupt \/ returnToCaller

Spec == Init /\ [][Next]_vars

\* The bound lists: an engine that PSO() has just created, and the four
\* operations on the lists.
InitBounds ==
  /\ iInstance = TRUE
  /\ psoType = "BASIC"
  /\ topology = "None"
  /\ timeSteps = 1
  /\ currentStep = 0
  /\ function = "None"
  /\ inertiaFactorMinus = NoneNum
  /\ inertiaFactor = NoneNum
  /\ inertiaFactorStart = NoneNum
  /\ inertiaFactorEnd = NoneNum
  /\ positionBounds = <<>>
  /\ initialPositionBounds = <<>>
  /\ velocityBounds = <<>>
  /\ reportAdapter = NoAdapter
  /\ pc = "idle"
  /\ freq_stats = 0
  /\ log = <<>>
  /\ ret = NoRet

NextBounds ==
  \/ initializeBounds \/ definePositionBounds \/ defineInitialPositionBounds
  \/ defineVelocityBounds \/ returnToCaller

SpecBounds == InitBounds /\ [][NextBounds]_vars

\* checkParametersSet as a function of the fields it reads: every combination
\* of set and unset fields (a caller can assign any field through a handle,
\* PSO.__setattr__ delegates to the Singleton), and the call.
InitParams ==
  /\ iInstance = TRUE
  /\ psoType \in PsoTypes
  /\ topology \in {"None"} \cup TopologyInputs
  /\ function \in {"None", "f"}
  /\ timeSteps = 1
  /\ currentStep = 0
  /\ inertiaFactorMinus \in {NoneNum, PyFloat(0), PyFloat(1)}
  /\ inertiaFactor \in {NoneNum, PyFloat(0), PyFloat(1)}
  /\ inertiaFactorStart = NoneNum
  /\ inertiaFactorEnd = NoneNum
  /\ positionBounds \in {<<>>, <<DefaultPositionBound>>}
  /\ initialPositionBounds \in {<<>>, <<DefaultPositionBound>>}
  /\ velocityBounds \in {<<>>, <<DefaultVelocityBound>>}
  /\ reportAdapter = NoAdapter
  /\ pc = "idle"
  /\ freq_stats = 0
  /\ log = <<>>
  /\ ret = NoRet

NextParams == checkParametersSetCall \/ returnToCaller

SpecParams == InitParams /\ [][NextParams]_vars

\* ------------------------------------------------------------- observations
\* Number of calls of `name` the execute() in progress has made.
Count(name) == Cardinality({i \in DOMAIN log : log[i].ev = name})
Interrupted == \E i \in DOMAIN log : log[i].ev = "KeyboardInterrupt"
InterruptAt == CHOOSE i \in DOMAIN log : log[i].ev = "KeyboardInterrupt"
\* execute() has come to its end without raising.
ExecuteReturned == pc = "ret" /\ ret.op = "execute" /\ ret.exc = "none"
\* A call of `op` is made from idle and finishes in this step.
Calls(op) == pc = "idle" /\ pc' = "ret" /\ ret'.op = op
StepEvents == {"constructSolution", "updateParticlesPosition",
               "updateParticlesInformation", "storeBestParticle",
               "updateInertiaFactor", "increment"}

\* ------------------------------------------------------------- claims
\* C1: every execute() that is not interrupted makes exactly timeSteps calls of
\* constructSolution and stops with currentStep = timeSteps, also on an engine
\* that has run before or whose timeSteps was changed after a run.
C1_ExecuteRunsTimeSteps ==
  /\ (pc \in RunPcs /\ ~Interrupted) => Count("constructSolution") <= timeSteps
  /\ (ExecuteReturned /\ ~Interrupted) =>
       Count("constructSolution") = timeSteps /\ currentStep = timeSteps

\* C2: checkParametersSet raises when the topology is unset, when the function
\* is unset, when the variant is INERTIA and no schedule was set, and when any
\* one of the three bound lists is empty.
C2_CheckRaises ==
  (pc = "ret" /\ ret.op = "checkParametersSet") =>
    /\ topology = "None" => ret.exc = "TypeError"
    /\ function = "None" => ret.exc = "TypeError"
    /\ ( /\ psoType = "INERTIA"
         /\ (inertiaFactor.kind = "None" \/ inertiaFactorMinus.kind = "None") )
         => ret.exc = "TypeError"
    /\ positionBounds = <<>> => ret.exc = "TypeError"
    /\ initialPositionBounds = <<>> => ret.exc = "TypeError"
    /\ velocityBounds = <<>> => ret.exc = "TypeError"

\* C2 happens: everything is set but positionBounds, and the check has raised.
C2_Witness ==
  /\ pc = "ret" /\ ret.op = "checkParametersSet" /\ ret.exc = "TypeError"
  /\ topology # "None" /\ function # "None" /\ psoType # "INERTIA"
  /\ positionBounds = <<>>
  /\ initialPositionBounds # <<>> /\ velocityBounds # <<>>

\* C3: a run never starts while a bound is still at the default that
\* initializeBounds wrote, in any dimension.
HasDefaultBound ==
  \/ \E i \in DOMAIN positionBounds : positionBounds[i] = DefaultPositionBound
  \/ \E i \in DOMAIN initialPositionBounds :
       initialPositionBounds[i] = DefaultPositionBound
  \/ \E i \in DOMAIN velocityBounds : velocityBounds[i] = DefaultVelocityBound

C3_DefaultBoundsRejected == pc \in RunPcs => ~HasDefaultBound

\* C4: with a report sink configured, an execute() that reached its step count
\* has inserted a final observation and called saveAndClose() exactly once when
\* it returns, whatever timeSteps and statsGenFreq are.
C4_SinkClosedOnTermination ==
  (ExecuteReturned /\ ~Interrupted /\ reportAdapter.present) =>
    /\ Count("saveAndClose") = 1
    /\ \E i \in DOMAIN log : log[i].ev = "insert" /\ log[i].step = currentStep

\* C5, for an engine with a report sink: after a KeyboardInterrupt in the loop
\* no step operation is performed any more and currentStep no longer changes,
\* and when execute() returns the final statistics were computed, inserted
\* into the sink and the sink closed, whatever freq_stats is and wherever the
\* interrupt landed.
C5_InterruptStopsCleanly ==
  (Interrupted /\ reportAdapter.present) =>
    /\ \A j \in DOMAIN log : j > InterruptAt => log[j].ev \notin StepEvents
    /\ currentStep = log[InterruptAt].step
    /\ ExecuteReturned =>
         /\ \E j \in DOMAIN log : j > InterruptAt /\ log[j].ev = "statistics"
         /\ \E j \in DOMAIN log : j > InterruptAt /\ log[j].ev = "insert"
         /\ \E j \in DOMAIN log : j > InterruptAt /\ log[j].ev = "saveAndClose"

\* C6: with variant INERTIA, a run that begins at inertiaFactorStart stays
\* between start and end at every step, and after its timeSteps decrements
\* inertiaFactor equals inertiaFactorEnd, for every pair (start, end) and every
\* order of setTimeSteps and setInitialInertiaFactor.
BeganAtStart ==
  inertiaFactor.v + Count("updateInertiaFactor") * inertiaFactorMinus.v
    = inertiaFactorStart.v

Between(x, a, b) == (a.v <= x.v /\ x.v <= b.v) \/ (b.v <= x.v /\ x.v <= a.v)

C6_InertiaReachesEnd ==
  ( /\ psoType = "INERTIA"
    /\ pc \in RunPcs \cup {"ret"}
    /\ log # <<>>
    /\ ~Interrupted
    /\ BeganAtStart
    /\ Count("updateInertiaFactor") <= timeSteps ) =>
      /\ Between(inertiaFactor, inertiaFactorStart, inertiaFactorEnd)
      /\ (ExecuteReturned /\ Count("updateInertiaFactor") = timeSteps)
           => inertiaFactor = inertiaFactorEnd

\* C7 as claimed: setInitialInertiaFactor while the variant is not INERTIA
\* raises, and so does updateInertiaFactor before start and end were set.
C7_MisuseRaises ==
  /\ (pc = "ret" /\ ret.op = "setInitialInertiaFactor" /\ psoType # "INERTIA")
       => ret.exc # "none"
  /\ (pc = "ret" /\ ret.op = "updateInertiaFactor" /\ inertiaFactor.kind = "None")
       => ret.exc # "none"

\* C7 as the code has it: setInitialInertiaFactor while the variant is not
\* INERTIA returns without an error, updateInertiaFactor before start and end
\* were set raises a TypeError, and both leave inertiaFactor and
\* inertiaFactorMinus as they were.
C7_MisuseLeavesSchedule ==
  [][ /\ (Calls("setInitialInertiaFactor") /\ psoType # "INERTIA") =>
           ret'.exc = "none" /\ UNCHANGED <<inertiaFactor, inertiaFactorMinus>>
      /\ (Calls("updateInertiaFactor") /\ inertiaFactor.kind = "None") =>
           ret'.exc = "TypeError" /\ UNCHANGED <<inertiaFactor, inertiaFactorMinus>>
    ]_vars

\* C7 happens: setInitialInertiaFactor has returned while the variant is not
\* INERTIA, on an engine that has no schedule.
C7_Witness ==
  /\ pc = "ret" /\ ret.op = "setInitialInertiaFactor" /\ ret.exc = "none"
  /\ psoType # "INERTIA"
  /\ inertiaFactor = NoneNum /\ inertiaFactorMinus = NoneNum

\* C8: a bounds setter raises and leaves the three lists unchanged whenever
\* the lists were never initialized, and a position setter whenever its value
\* is no well-formed (min, max) pair: no tuple, not of length 2, or min > max.
\* (Stated for a range that is not empty where the lists were never
\* initialized; a position setter's value is looked at for every range.)
WellFormedPair(x) ==
  x.kind = "tuple" /\ Len(x.items) = 2 /\ x.items[1] <= x.items[2]

PositionSetters == {"definePositionBounds", "defineInitialPositionBounds"}
BoundSetters == PositionSetters \cup {"defineVelocityBounds"}

C8_SettersReject ==
  [][ ( /\ pc = "idle" /\ pc' = "ret" /\ ret'.op \in BoundSetters
        /\ \/ positionBounds = <<>> /\ ret'.args[1] < ret'.args[2]
           \/ ret'.op \in PositionSetters /\ ~WellFormedPair(ret'.args[3]) )
      => (ret'.exc # "none" /\ UNCHANGED bounds) ]_vars

\* C9 as claimed: a newly constructed engine is in the initial unconfigured
\* state whatever was constructed and configured before.
Unconfigured ==
  /\ topology = "None" /\ function = "None" /\ currentStep = 0
  /\ inertiaFactor = NoneNum /\ inertiaFactorMinus = NoneNum
  /\ positionBounds = <<>> /\ initialPositionBounds = <<>> /\ velocityBounds = <<>>
  /\ reportAdapter = NoAdapter

C9_FreshEngineUnconfigured == (pc = "ret" /\ ret.op = "PSO") => Unconfigured

\* C9 as the code has it: only the first PSO() creates an engine, in the
\* unconfigured state; every later PSO() returns a handle on that same engine
\* and leaves every field of it as it was.
C9_SharedSingleton ==
  [][ Calls("PSO") =>
        IF iInstance
          THEN ~ret'.created /\ UNCHANGED engine
          ELSE ret'.created /\ Unconfigured' ]_vars

\* C9 happens: a second PSO() has returned on an engine that was configured.
C9_Witness ==
  /\ pc = "ret" /\ ret.op = "PSO" /\ ~ret.created
  /\ topology # "None" /\ positionBounds # <<>>

\* C10: 0 <= currentStep <= timeSteps in every state of the engine, and
\* currentStep changes by +1 only.
C10_StepWithinBudget ==
  [][ /\ iInstance' => (0 <= currentStep' /\ currentStep' <= timeSteps')
      /\ (iInstance /\ currentStep' # currentStep) => currentStep' = currentStep + 1
    ]_vars

\* C11: once initializeBounds(dimensions) has been called with a positive
\* number of dimensions, the three bound lists all have length dimensions, and
\* no setter call changes a length, also when initializeBounds is called more
\* than once.
Lengths == <<Len(positionBounds), Len(initialPositionBounds), Len(velocityBounds)>>

C11_LengthIsDimensions ==
  [][ IF Calls("initializeBounds") /\ ret'.args[1] > 0
        THEN Lengths' = <<ret'.args[1], ret'.args[1], ret'.args[1]>>
        ELSE Lengths' = Lengths ]_vars

\* C12: within a run topology.initialize() is called once, before the first
\* step, and every step calls updateParticlesPosition, updateParticlesInformation,
\* storeBestParticle iff the topology is a LocalTopology, one inertia decrement
\* iff the variant is INERTIA, and then increments currentStep by one, in this
\* order; no step begins before the increment of the previous one.
TopologyEvents == {"initialize", "updateParticlesPosition",
                   "updateParticlesInformation", "storeBestParticle",
                   "updateInertiaFactor", "increment"}

IsTopologyEvent(e) == e.ev \in TopologyEvents

Schedule == SelectSeq(log, IsTopologyEvent)

StepPattern ==
  <<"updateParticlesPosition", "updateParticlesInformation">>
  \o (IF topology = "LocalTopology" THEN <<"storeBestParticle">> ELSE <<>>)
  \o (IF psoType = "INERTIA" THEN <<"updateInertiaFactor">> ELSE <<>>)
  \o <<"increment">>

C12_StepOrder ==
  LET s == Schedule
      pattern == StepPattern
      n == Len(pattern)
  IN /\ \A i \in DOMAIN s :
          /\ s[i].ev = IF i = 1 THEN "initialize" ELSE pattern[((i - 2) % n) + 1]
          /\ (i > 1 /\ s[i].ev = "increment") => s[i].step = s[i - 1].step + 1
     /\ pc \in (RunPcs \ {"open", "initialize"}) => Len(s) >= 1
     /\ pc = "updateParticlesPosition" => (Len(s) - 1) % n = 0

C12_Witness ==
  /\ ExecuteReturned
  /\ topology = "LocalTopology"
  /\ psoType = "INERTIA"
  /\ Count("increment") = 2
  /\ Count("storeBestParticle") = 2
  /\ Count("updateInertiaFactor") = 2

\* C13: with a report sink of frequency statsGenFreq, an uninterrupted run
\* that began at step 0 has inserted exactly one observation for every step s
\* in 1..timeSteps with s mod statsGenFreq = 0 when execute() returns,
\* whatever freq_stats is, 0 included.
InsertsAt(s) == Cardinality({i \in DOMAIN log : log[i] = [ev |-> "insert", step |-> s]})

C13_InsertEveryNthStep ==
  ( /\ ExecuteReturned
    /\ ~Interrupted
    /\ reportAdapter.present
    /\ Count("increment") = currentStep ) =>
    \A s \in 1..timeSteps :
      s % reportAdapter.statsGenFreq = 0 => InsertsAt(s) = 1

\* C14: with a report sink, execute() calls open() exactly once, as the first
\* call of the run, before topology.initialize() and before any insert();
\* saveAndClose() is the last call of a run that makes it, so that no insert()
\* follows it and it is called at most once. With no
\* sink no sink operation is called at any point of the run: execute() goes
\* from the final statistics to its return without a closing step.
SinkEvents == {"open", "insert", "saveAndClose"}

C14_SinkProtocol ==
  IF reportAdapter.present
    THEN /\ \A i \in DOMAIN log :
              /\ log[i].ev = "open" => i = 1
              /\ log[i].ev = "saveAndClose" => i = Len(log)
         /\ log # <<>> => log[1].ev = "open"
         /\ (pc \in (RunPcs \ {"open"}) \/ ExecuteReturned) => log # <<>>
    ELSE /\ \A i \in DOMAIN log : log[i].ev \notin SinkEvents
         /\ pc # "saveAndClose"

C14_Witness ==
  /\ ExecuteReturned
  /\ reportAdapter.present
  /\ Count("open") = 1
  /\ Count("insert") = 2
  /\ Count("saveAndClose") = 1

\* C15: a setter call leaves the length of its list and every entry whose
\* index is outside [first, last) as they were, whatever first and last are,
\* negative or beyond the dimensions; a call that returns with
\* 0 <= first <= last <= dimensions has moreover set every entry of
\* first..last-1 to the value and left the other two lists and the rest of the
\* engine unchanged.
TargetOf(op) ==
  IF op = "definePositionBounds" THEN positionBounds
  ELSE IF op = "defineInitialPositionBounds" THEN initialPositionBounds
  ELSE velocityBounds

C15_SetterFrame ==
  [][ \A op \in BoundSetters :
        Calls(op) =>
          LET first == ret'.args[1]
              last == ret'.args[2]
              value == ret'.args[3]
              old == TargetOf(op)
              new == TargetOf(op)'
          IN /\ Len(new) = Len(old)
             /\ \A k \in DOMAIN old :
                  (k - 1 < first \/ k - 1 >= last) => new[k] = old[k]
             /\ (ret'.exc = "none" /\ 0 <= first /\ first <= last /\ last <= Len(old)) =>
                  /\ \A k \in DOMAIN old :
                       (first <= k - 1 /\ k - 1 < last) => new[k] = value
                  /\ \A other \in BoundSetters \ {op} :
                       TargetOf(other)' = TargetOf(other)
                  /\ UNCHANGED <<psoType, topology, function, timeSteps,
                                 currentStep, inertia, reportAdapter>> ]_vars

\* C16: an execute() called on a configuration that checkParametersSet rejects
\* raises the configuration error at once: the run is not entered, so the sink
\* is not opened and no topology operation is called, and currentStep, the
\* inertia state, the bound lists and the rest of the engine are unchanged.
C16_CheckFailsFast ==
  [][ (pc = "idle" /\ checkParametersSet # "none") =>
        /\ pc' \notin RunPcs
        /\ Calls("execute") =>
             /\ ret'.exc = "TypeError"
             /\ log' = <<>>
             /\ UNCHANGED <<iInstance, engine>> ]_vars

C16_Witness ==
  /\ pc = "ret"
  /\ ret.op = "execute"
  /\ ret.exc = "TypeError"
  /\ checkParametersSet # "none"
  /\ reportAdapter.present
  /\ topology # "None"
  /\ function # "None"
  /\ log = <<>>

\* C17, as claimed: in every state outside constructSolution, after an
\* interrupt at any point of the loop included, the numbers of
\* updateParticlesPosition calls, of updateParticlesInformation calls and, for
\* INERTIA, of inertia decrements of the run equal the number of its
\* currentStep increments.
MidStepPcs == {"updateParticlesInformation", "storeBestParticle", "updateInertia",
               "increment"}

Decrements == IF psoType = "INERTIA" THEN Count("updateInertiaFactor")
              ELSE Count("increment")

C17_StepAtomic ==
  pc \notin MidStepPcs =>
    /\ Count("updateParticlesPosition") = Count("increment")
    /\ Count("updateParticlesInformation") = Count("increment")
    /\ Decrements = Count("increment")

\* The KeyboardInterrupt of this run arrived inside constructSolution: the
\* call made last before it is a step operation other than the increment.
InterruptedInStep ==
  \E i \in DOMAIN log :
    /\ log[i].ev = "KeyboardInterrupt"
    /\ i > 1
    /\ log[i - 1].ev \in StepEvents \ {"increment"}

\* C17, amended: the numbers are equal in every state outside constructSolution
\* of a run that was not interrupted inside a step; an interrupt inside
\* constructSolution ends the run with that one step left partial, its calls
\* made so far not undone: positions >= informations >= decrements >=
\* increments >= positions - 1.
C17_StepPartialOnInterrupt ==
  pc \notin MidStepPcs =>
    LET positions == Count("updateParticlesPosition")
        informations == Count("updateParticlesInformation")
        increments == Count("increment")
        decrements == IF psoType = "INERTIA" THEN Count("updateInertiaFactor")
                      ELSE increments
    IN /\ increments <= decrements
       /\ decrements <= informations
       /\ informations <= positions
       /\ positions <= increments + 1
       /\ ~InterruptedInStep => positions = increments

C17_Witness ==
  /\ ExecuteReturned
  /\ InterruptedInStep
  /\ psoType = "INERTIA"
  /\ Count("increment") = 1
  /\ Count("updateParticlesPosition") = 2
  /\ Count("updateParticlesInformation") = 2
  /\ Count("updateInertiaFactor") = 1

\* C18: checkParametersSet returns without raising whenever the topology and
\* the function are set, the three bound lists are non-empty and, for INERTIA,
\* setInitialInertiaFactor(start, end) was called while the variant was INERTIA
\* and no step has moved the factor since, for every pair (start, end):
\* start = end, start = 0 and integers closer than timeSteps included.
ScheduleSet ==
  /\ inertiaFactorStart.kind # "None"
  /\ inertiaFactor = inertiaFactorStart

C18_ScheduleAccepted ==
  ( /\ pc = "ret"
    /\ ret.op = "checkParametersSet"
    /\ topology # "None"
    /\ function # "None"
    /\ positionBounds # <<>>
    /\ initialPositionBounds # <<>>
    /\ velocityBounds # <<>>
    /\ psoType = "INERTIA" => ScheduleSet ) =>
    ret.exc = "none"

\* C19: no two insert() calls of one execute() carry the same currentStep,
\* whether the run ends at timeSteps or by a KeyboardInterrupt at any point of
\* the loop.
C19_OneInsertPerStep ==
  \A i, j \in DOMAIN log :
    (log[i].ev = "insert" /\ log[j].ev = "insert" /\ log[i].step = log[j].step) => i = j

====
